---- MODULE Spec2Model ----
(***************************************************************************)
(* petty-intern: a value interner made of a bump arena (bumpalo::Bump) and *)
(* a hash index (hashbrown::HashTable<NonNull<u8>>) of pointers into it.   *)
(*                                                                         *)
(* Three interners are modelled, selected by `variant`:                    *)
(*   "unsync"  src/src/unsync.rs  single owner, UnsafeCell, no locking     *)
(*   "sync"    src/src/sync.rs    std RwLock around the unsync interner,   *)
(*                                drop-read / acquire-write / re-check     *)
(*   "lib"     src/src/lib.rs     parking_lot RwLock with upgradable read, *)
(*                                arena behind OnceLock<Mutex<Bump>>       *)
(*                                                                         *)
(* Values of T are the integers 1..NumValues with integer equality.  An    *)
(* address is the position of the allocation in the arena (1, 2, ...): the *)
(* bump allocator never moves or frees an allocation.                      *)
(***************************************************************************)
EXTENDS Integers, Sequences, FiniteSets, TLC

\* Bounds of the model.
NumValues == 4
NumThreads == 2
MaxArena == 5
\* in a workload that uses intern_new / insert_arena: the values drawn and the
\* number of such calls
RawValues == 2
MaxRaw == 2

Values == 1..NumValues
Threads == 1..NumThreads
Addrs == 1..MaxArena

\* Option::None for a returned reference, and "nobody" for a lock holder.
None == 0

Variants == {"unsync", "sync", "lib"}

VARIABLES
    variant,     \* which of the three interners this behaviour runs
    arena,       \* the Bump arena: arena[p] is the value stored at address p
    arenaInit,   \* the OnceCell / OnceLock of the arena has been initialised
    set,         \* the HashTable: [buckets, entries], an entry is [ptr, hash]
    readers,     \* threads holding the RwLock shared
    upgrader,    \* thread holding the parking_lot upgradable read lock, or None
    writer,      \* thread holding (lib.rs: or upgrading to) the exclusive RwLock, or None
    mutex,       \* thread holding the arena Mutex (lib.rs), or None
    pc,          \* per thread: position inside the current call
    op,          \* per thread: the method being executed
    arg,         \* per thread: the value passed to the method
    ptr,         \* per thread: the pointer returned by arena.alloc (lib.rs)
    ret,         \* per thread: the result of the call that has just returned
    seen,        \* per thread: canon[arg] when the call started
    canon,       \* history: canon[v] = the address the first intern(v) returned, or None
    raw,         \* workload: the callers also use intern_new / insert_arena
    rawCalls     \* history: number of intern_new / insert_arena calls so far

data == <<arena, arenaInit, set>>
locks == <<readers, upgrader, writer, mutex>>
local == <<pc, op, arg, ptr, ret, seen>>
hist == <<canon, raw, rawCalls>>
vars == <<variant, arena, arenaInit, set, readers, upgrader, writer, mutex,
          pc, op, arg, ptr, ret, seen, canon, raw, rawCalls>>

(***************************************************************************)
(* Hashing.  FxBuildHasher.hash_one multiplies the hashed word by an odd   *)
(* constant in 64-bit wrapping arithmetic; the model keeps the multiply    *)
(* and reduces the hash space to HashSpace values, one fewer than there    *)
(* are values, so that two unequal values share a hash.                    *)
(***************************************************************************)
HashSpace == NumValues - 1

\* low byte of the rustc-hash multiplier
FxSeed == 197

FxHash(word) == (word * FxSeed) % HashSpace

\* FxBuildHasher.hash_one(&value): the hash of a value of T
HashValue(v) == FxHash(v)

\* FxBuildHasher.hash_one(t) with t: &NonNull<u8>: NonNull hashes its address
HashPtr(p) == FxHash(p)

(***************************************************************************)
(* hashbrown::HashTable, as a keyed map: every entry is filed under a hash *)
(* (its probe position and control byte), find(hash, eq) examines the      *)
(* entries filed under `hash`, insert_unique(hash, value, hasher) files    *)
(* the new entry under `hash` and, when the table is full, first grows it  *)
(* and re-files every existing entry under hasher(entry).                  *)
(***************************************************************************)
EmptyTable == [buckets |-> 0, entries |-> {}]

\* bucket_mask_to_capacity
Capacity(buckets) ==
    IF buckets = 0 THEN 0
    ELSE IF buckets < 8 THEN buckets - 1
    ELSE (buckets \div 8) * 7

\* capacity_to_buckets(max(items + 1, capacity + 1)) on a full table
GrownBuckets(buckets) == IF buckets = 0 THEN 4 ELSE 2 * buckets

TableLen(tbl) == Cardinality(tbl.entries)

\* a find that takes the hash match for equality
FindIgnoringEq(tbl, hash, eq) == {e.ptr : e \in {x \in tbl.entries : x.hash = hash}}

\* HashTable::find: the pointers filed under `hash` that satisfy the equality
\* predicate; the predicate is given as the set eq of the pointers it accepts
Find(tbl, hash, eq) == {e.ptr : e \in {x \in tbl.entries : x.hash = hash /\ x.ptr \in eq}}

\* the closure passed to insert_unique, |t| FxBuildHasher.hash_one(t), as the
\* function from a table element (a pointer) to the hash it computes
Hasher == [p \in Addrs |-> HashPtr(p)]

\* a resize that does not carry the old entries over
RehashDropping(tbl, hasher) ==
    [buckets |-> GrownBuckets(tbl.buckets), entries |-> {}]

\* RawTable::reserve_rehash / resize: every entry is re-filed under hasher(entry)
Rehash(tbl, hasher) ==
    [buckets |-> GrownBuckets(tbl.buckets),
     entries |-> {[ptr |-> e.ptr, hash |-> hasher[e.ptr]] : e \in tbl.entries}]

\* HashTable::insert_unique
InsertUnique(tbl, hash, p, hasher) ==
    LET room == IF TableLen(tbl) = Capacity(tbl.buckets) THEN Rehash(tbl, hasher) ELSE tbl
    IN  [room EXCEPT !.entries = @ \cup {[ptr |-> p, hash |-> hash]}]

(***************************************************************************)
(* The arena.                                                              *)
(***************************************************************************)
\* a bump allocator that moves what it allocated before
AllocMoving(ar, v) == <<v>> \o ar

\* Bump::alloc: the value is placed behind everything allocated before
Alloc(ar, v) == Append(ar, v)

\* the address Bump::alloc returns
AllocPtr(ar) == Len(ar) + 1

(***************************************************************************)
(* The unsynchronised interner (unsync.rs), as functions of its fields.    *)
(***************************************************************************)
\* a lookup that trusts the hash and skips the equality predicate
TryResolveByHashOnly(tbl, ar, value, hash) ==
    Find(tbl, hash, DOMAIN ar)

\* Interner::try_resolve_with: the cached pointers find can return
TryResolveWith(tbl, ar, value, hash) ==
    Find(tbl, hash, {p \in DOMAIN ar : ar[p] = value})

\* Interner::len
LenOf(tbl) == TableLen(tbl)

(***************************************************************************)
(* Initial state: Interner::new().                                         *)
(***************************************************************************)
\* a constructor that creates the arena at once
InitEager ==
    /\ raw \in BOOLEAN
    /\ variant \in (IF raw THEN {"unsync", "sync"} ELSE Variants)
    /\ arena = <<>>
    /\ arenaInit = TRUE
    /\ set = EmptyTable
    /\ readers = {}
    /\ upgrader = None
    /\ writer = None
    /\ mutex = None
    /\ pc = [t \in Threads |-> "idle"]
    /\ op = [t \in Threads |-> "none"]
    /\ arg = [t \in Threads |-> None]
    /\ ptr = [t \in Threads |-> None]
    /\ ret = [t \in Threads |-> None]
    /\ seen = [t \in Threads |-> None]
    /\ canon = [v \in Values |-> None]
    /\ rawCalls = 0

Init ==
    /\ raw \in BOOLEAN
    /\ variant \in (IF raw THEN {"unsync", "sync"} ELSE Variants)
    /\ arena = <<>>
    /\ arenaInit = FALSE
    /\ set = EmptyTable
    /\ readers = {}
    /\ upgrader = None
    /\ writer = None
    /\ mutex = None
    /\ pc = [t \in Threads |-> "idle"]
    /\ op = [t \in Threads |-> "none"]
    /\ arg = [t \in Threads |-> None]
    /\ ptr = [t \in Threads |-> None]
    /\ ret = [t \in Threads |-> None]
    /\ seen = [t \in Threads |-> None]
    /\ canon = [v \in Values |-> None]
    /\ rawCalls = 0

(***************************************************************************)
(* Call bookkeeping.                                                       *)
(***************************************************************************)
\* threads inside a call that can still allocate
Allocating == {t \in Threads : pc[t] \notin {"idle", "done"} /\ op[t] \in {"intern", "intern_new"}}

\* the arena bound leaves room for one more allocating call
Room == Len(arena) + Cardinality(Allocating) < MaxArena

\* the values the callers of this workload submit
Universe == IF raw THEN 1..RawValues ELSE Values

\* the workload allows one more intern_new / insert_arena call
RawCall ==
    /\ raw
    /\ rawCalls < MaxRaw
    /\ rawCalls' = rawCalls + 1
    /\ UNCHANGED <<raw, canon>>

\* no intern_new and no insert_arena was called so far
OnlyIntern == rawCalls = 0

\* no call is in progress
Quiescent == \A t \in Threads : pc[t] \in {"idle", "done"}

Begin(t, o, v, next) ==
    /\ pc[t] = "idle"
    /\ op' = [op EXCEPT ![t] = o]
    /\ arg' = [arg EXCEPT ![t] = v]
    /\ pc' = [pc EXCEPT ![t] = next]
    /\ seen' = [seen EXCEPT ![t] = IF v \in Values THEN canon[v] ELSE None]

Goto(t, next) ==
    /\ pc' = [pc EXCEPT ![t] = next]
    /\ UNCHANGED <<op, arg, seen>>

Finish(t, r) ==
    /\ pc' = [pc EXCEPT ![t] = "done"]
    /\ ret' = [ret EXCEPT ![t] = r]
    /\ UNCHANGED <<op, arg, seen>>

\* history: the address the first intern(v) returned
Record(v, r) ==
    /\ canon' = [canon EXCEPT ![v] = IF @ = None THEN r ELSE @]
    /\ UNCHANGED <<raw, rawCalls>>

\* the caller takes the result; the thread is free for its next call
Return(t) ==
    /\ pc[t] = "done"
    /\ pc' = [pc EXCEPT ![t] = "idle"]
    /\ op' = [op EXCEPT ![t] = "none"]
    /\ arg' = [arg EXCEPT ![t] = None]
    /\ ret' = [ret EXCEPT ![t] = None]
    /\ seen' = [seen EXCEPT ![t] = None]
    /\ UNCHANGED <<variant, data, locks, ptr, hist>>

(***************************************************************************)
(* unsync.rs: every method runs to completion before the owner calls the   *)
(* next one, so a call is one step.                                        *)
(***************************************************************************)
\* Interner::insert: arena.get_or_init, alloc, insert_unique; returns the new address
Insert(t, hash, v) ==
    /\ arenaInit' = TRUE
    /\ arena' = Alloc(arena, v)
    /\ set' = InsertUnique(set, hash, AllocPtr(arena), Hasher)
    /\ ret' = [ret EXCEPT ![t] = AllocPtr(arena)]

\* the hit branch of a lookup: one of the pointers find can return
Hit(t, cached) == \E p \in cached : ret' = [ret EXCEPT ![t] = p]

UnsyncIntern(t, v) ==
    LET hash == HashValue(v)
        cached == TryResolveWith(set, arena, v, hash)
    IN  /\ variant = "unsync"
        /\ Quiescent
        /\ Begin(t, "intern", v, "done")
        /\ IF cached /= {}
           THEN Hit(t, cached) /\ UNCHANGED data
           ELSE Len(arena) < MaxArena /\ Insert(t, hash, v)
        /\ Record(v, ret'[t])
        /\ UNCHANGED <<variant, locks, ptr>>

\* an intern_new that looks the value up first, as intern does
UnsyncInternNewLookup(t, v) ==
    LET hash == HashValue(v)
        cached == TryResolveWith(set, arena, v, hash)
    IN  /\ variant = "unsync"
        /\ Quiescent
        /\ Len(arena) < MaxArena
        /\ RawCall
        /\ Begin(t, "intern_new", v, "done")
        /\ IF cached /= {}
           THEN Hit(t, cached) /\ UNCHANGED data
           ELSE Insert(t, hash, v)
        /\ UNCHANGED <<variant, locks, ptr>>

UnsyncInternNew(t, v) ==
    /\ variant = "unsync"
    /\ Quiescent
    /\ Len(arena) < MaxArena
    /\ RawCall
    /\ Begin(t, "intern_new", v, "done")
    /\ Insert(t, HashValue(v), v)
    /\ UNCHANGED <<variant, locks, ptr>>

\* an insert_arena that also registers the value in the index
UnsyncInsertArenaIndexed(t, v) ==
    /\ variant = "unsync"
    /\ Quiescent
    /\ Len(arena) < MaxArena
    /\ RawCall
    /\ Begin(t, "insert_arena", v, "done")
    /\ Insert(t, HashValue(v), v)
    /\ UNCHANGED <<variant, locks, ptr>>

UnsyncInsertArena(t, v) ==
    /\ variant = "unsync"
    /\ Quiescent
    /\ Len(arena) < MaxArena
    /\ RawCall
    /\ Begin(t, "insert_arena", v, "done")
    /\ arenaInit' = TRUE
    /\ arena' = Alloc(arena, v)
    /\ ret' = [ret EXCEPT ![t] = AllocPtr(arena)]
    /\ UNCHANGED <<variant, set, locks, ptr>>

\* a try_resolve that goes through arena.get_or_init
UnsyncTryResolveInit(t, q) ==
    LET cached == TryResolveWith(set, arena, q, HashValue(q))
    IN  /\ variant = "unsync"
        /\ Quiescent
        /\ Begin(t, "try_resolve", q, "done")
        /\ IF cached /= {} THEN Hit(t, cached) ELSE ret' = [ret EXCEPT ![t] = None]
        /\ arenaInit' = TRUE
        /\ UNCHANGED <<variant, arena, set, locks, ptr, hist>>

UnsyncTryResolve(t, q) ==
    LET cached == TryResolveWith(set, arena, q, HashValue(q))
    IN  /\ variant = "unsync"
        /\ Quiescent
        /\ Begin(t, "try_resolve", q, "done")
        /\ IF cached /= {} THEN Hit(t, cached) ELSE ret' = [ret EXCEPT ![t] = None]
        /\ UNCHANGED <<variant, data, locks, ptr, hist>>

UnsyncLen(t) ==
    /\ variant = "unsync"
    /\ Quiescent
    /\ Begin(t, "len", None, "done")
    /\ ret' = [ret EXCEPT ![t] = LenOf(set)]
    /\ UNCHANGED <<variant, data, locks, ptr, hist>>

(***************************************************************************)
(* sync.rs: RwLock<unsync::Interner>.  A step ends where the thread can    *)
(* block on the lock.                                                      *)
(***************************************************************************)
\* RwLock::read can be acquired
CanRead == writer = None

\* RwLock::write can be acquired
CanWrite == writer = None /\ readers = {} /\ upgrader = None

SyncTryResolveStart(t, q) ==
    /\ variant = "sync"
    /\ CanRead
    /\ Begin(t, "try_resolve", q, "find")
    /\ readers' = readers \cup {t}
    /\ UNCHANGED <<variant, data, upgrader, writer, mutex, ptr, ret, hist>>

SyncTryResolveFind(t) ==
    LET cached == TryResolveWith(set, arena, arg[t], HashValue(arg[t]))
    IN  /\ variant = "sync"
        /\ pc[t] = "find"
        /\ \E r \in (IF cached /= {} THEN cached ELSE {None}) : Finish(t, r)
        /\ readers' = readers \ {t}
        /\ UNCHANGED <<variant, data, upgrader, writer, mutex, ptr, hist>>

SyncLen(t) ==
    /\ variant = "sync"
    /\ CanRead
    /\ Begin(t, "len", None, "done")
    /\ ret' = [ret EXCEPT ![t] = LenOf(set)]
    /\ UNCHANGED <<variant, data, locks, ptr, hist>>

\* intern: self.inner.read()
SyncInternStart(t, v) ==
    /\ variant = "sync"
    /\ Room
    /\ CanRead
    /\ Begin(t, "intern", v, "lookup")
    /\ readers' = readers \cup {t}
    /\ UNCHANGED <<variant, data, upgrader, writer, mutex, ptr, ret, hist>>

\* an intern that keeps its read guard when it goes for the write lock
SyncInternLookupKeepRead(t) ==
    LET cached == TryResolveWith(set, arena, arg[t], HashValue(arg[t]))
    IN  /\ variant = "sync"
        /\ pc[t] = "lookup"
        /\ IF cached /= {}
           THEN /\ readers' = readers \ {t}
                /\ \E p \in cached : Finish(t, p) /\ Record(arg[t], p)
           ELSE /\ UNCHANGED readers
                /\ Goto(t, "write") /\ UNCHANGED <<ret, hist>>
        /\ UNCHANGED <<variant, data, upgrader, writer, mutex, ptr>>

\* intern: first try_resolve_with, then return or drop(inner)
SyncInternLookup(t) ==
    LET cached == TryResolveWith(set, arena, arg[t], HashValue(arg[t]))
    IN  /\ variant = "sync"
        /\ pc[t] = "lookup"
        /\ readers' = readers \ {t}
        /\ IF cached /= {}
           THEN \E p \in cached : Finish(t, p) /\ Record(arg[t], p)
           ELSE Goto(t, "write") /\ UNCHANGED <<ret, hist>>
        /\ UNCHANGED <<variant, data, upgrader, writer, mutex, ptr>>

\* intern: self.inner.write()
SyncInternWrite(t) ==
    /\ variant = "sync"
    /\ pc[t] = "write"
    /\ CanWrite
    /\ writer' = t
    /\ Goto(t, "recheck")
    /\ UNCHANGED <<variant, data, readers, upgrader, mutex, ptr, ret, hist>>

\* an intern that inserts under the write lock without looking again
SyncInternNoRecheck(t) ==
    /\ variant = "sync"
    /\ pc[t] = "recheck"
    /\ writer' = None
    /\ pc' = [pc EXCEPT ![t] = "done"]
    /\ Insert(t, HashValue(arg[t]), arg[t])
    /\ Record(arg[t], ret'[t])
    /\ UNCHANGED <<variant, readers, upgrader, mutex, op, arg, seen, ptr>>

\* an intern that allocates its value before looking again under the write
\* lock, and leaves the allocation behind when the second find hits
SyncInternAllocFirst(t) ==
    LET hash == HashValue(arg[t])
        cached == TryResolveWith(set, arena, arg[t], hash)
    IN  /\ variant = "sync"
        /\ pc[t] = "recheck"
        /\ writer' = None
        /\ pc' = [pc EXCEPT ![t] = "done"]
        /\ IF cached /= {}
           THEN /\ Hit(t, cached)
                /\ arenaInit' = TRUE
                /\ arena' = Alloc(arena, arg[t])
                /\ UNCHANGED set
           ELSE Insert(t, hash, arg[t])
        /\ Record(arg[t], ret'[t])
        /\ UNCHANGED <<variant, readers, upgrader, mutex, op, arg, seen, ptr>>

\* intern: second try_resolve_with under the write lock, then insert
SyncInternRecheck(t) ==
    LET hash == HashValue(arg[t])
        cached == TryResolveWith(set, arena, arg[t], hash)
    IN  /\ variant = "sync"
        /\ pc[t] = "recheck"
        /\ writer' = None
        /\ pc' = [pc EXCEPT ![t] = "done"]
        /\ IF cached /= {}
           THEN Hit(t, cached) /\ UNCHANGED data
           ELSE Insert(t, hash, arg[t])
        /\ Record(arg[t], ret'[t])
        /\ UNCHANGED <<variant, readers, upgrader, mutex, op, arg, seen, ptr>>

\* intern_new: self.inner.write()
SyncInternNewStart(t, v) ==
    /\ variant = "sync"
    /\ Room
    /\ CanWrite
    /\ RawCall
    /\ Begin(t, "intern_new", v, "insert")
    /\ writer' = t
    /\ UNCHANGED <<variant, data, readers, upgrader, mutex, ptr, ret>>

\* intern_new: inner.insert(hash, value)
SyncInternNewInsert(t) ==
    /\ variant = "sync"
    /\ pc[t] = "insert"
    /\ op[t] = "intern_new"
    /\ writer' = None
    /\ pc' = [pc EXCEPT ![t] = "done"]
    /\ Insert(t, HashValue(arg[t]), arg[t])
    /\ UNCHANGED <<variant, readers, upgrader, mutex, op, arg, seen, ptr, hist>>

(***************************************************************************)
(* lib.rs: parking_lot RwLock<HashTable> with an upgradable read, and the  *)
(* arena behind OnceLock<Mutex<Bump>>.                                     *)
(***************************************************************************)
\* an upgradable read that is granted like a plain shared read
CanUpgradableReadShared == writer = None

\* RwLock::upgradable_read can be acquired
CanUpgradableRead == writer = None /\ upgrader = None

\* RwLockUpgradableReadGuard::upgrade can complete: no shared guard is left
CanUpgrade == readers = {}

LibTryResolveStart(t, q) ==
    /\ variant = "lib"
    /\ CanRead
    /\ Begin(t, "try_resolve", q, "find")
    /\ readers' = readers \cup {t}
    /\ UNCHANGED <<variant, data, upgrader, writer, mutex, ptr, ret, hist>>

LibTryResolveFind(t) ==
    LET cached == Find(set, HashValue(arg[t]), {p \in DOMAIN arena : arena[p] = arg[t]})
    IN  /\ variant = "lib"
        /\ pc[t] = "find"
        /\ \E r \in (IF cached /= {} THEN cached ELSE {None}) : Finish(t, r)
        /\ readers' = readers \ {t}
        /\ UNCHANGED <<variant, data, upgrader, writer, mutex, ptr, hist>>

\* intern: upgradable_read and find; a hit returns and drops the guard
LibInternStart(t, v) ==
    LET cached == Find(set, HashValue(v), {p \in DOMAIN arena : arena[p] = v})
    IN  /\ variant = "lib"
        /\ Room
        /\ CanUpgradableRead
        /\ IF cached /= {}
           THEN /\ Begin(t, "intern", v, "done")
                /\ Hit(t, cached)
                /\ Record(v, ret'[t])
                /\ UNCHANGED upgrader
           ELSE /\ Begin(t, "intern", v, "arena")
                /\ upgrader' = t
                /\ UNCHANGED <<ret, hist>>
        /\ UNCHANGED <<variant, data, readers, writer, mutex, ptr>>

\* an intern that reaches into the arena without locking its mutex
LibArenaUnlocked(t) ==
    /\ variant = "lib"
    /\ pc[t] = "arena"
    /\ arenaInit' = TRUE
    /\ Goto(t, "alloc")
    /\ UNCHANGED <<variant, arena, set, locks, ptr, ret, hist>>

\* intern: self.arena.get_or_init(Mutex::default).lock()
LibArenaLock(t) ==
    /\ variant = "lib"
    /\ pc[t] = "arena"
    /\ mutex = None
    /\ mutex' = t
    /\ arenaInit' = TRUE
    /\ Goto(t, "alloc")
    /\ UNCHANGED <<variant, arena, set, readers, upgrader, writer, ptr, ret, hist>>

\* intern: arena.alloc(value); drop(arena)
LibAlloc(t) ==
    /\ variant = "lib"
    /\ pc[t] = "alloc"
    /\ arena' = Alloc(arena, arg[t])
    /\ ptr' = [ptr EXCEPT ![t] = AllocPtr(arena)]
    /\ mutex' = None
    /\ Goto(t, "upgrade")
    /\ UNCHANGED <<variant, arenaInit, set, readers, upgrader, writer, ret, hist>>

\* intern: RwLockUpgradableReadGuard::upgrade(set) is called; the lock takes
\* its writer bit at once, so no further reader is admitted from here on
LibUpgrade(t) ==
    /\ variant = "lib"
    /\ pc[t] = "upgrade"
    /\ upgrader' = None
    /\ writer' = t
    /\ Goto(t, "upgrading")
    /\ UNCHANGED <<variant, data, readers, mutex, ptr, ret, hist>>

\* intern: upgrade returns once the readers admitted before it have left
LibUpgraded(t) ==
    /\ variant = "lib"
    /\ pc[t] = "upgrading"
    /\ CanUpgrade
    /\ Goto(t, "insert")
    /\ UNCHANGED <<variant, data, locks, ptr, ret, hist>>

\* intern: set.insert_unique(hash, cached, hasher); return; the guard is dropped
LibInsert(t) ==
    /\ variant = "lib"
    /\ pc[t] = "insert"
    /\ op[t] = "intern"
    /\ set' = InsertUnique(set, HashValue(arg[t]), ptr[t], Hasher)
    /\ writer' = None
    /\ Finish(t, ptr[t])
    /\ Record(arg[t], ptr[t])
    /\ ptr' = [ptr EXCEPT ![t] = None]
    /\ UNCHANGED <<variant, arena, arenaInit, readers, upgrader, mutex>>

(***************************************************************************)
(* The specification.                                                      *)
(***************************************************************************)
Next ==
    \/ \E t \in Threads : Return(t)
    \/ \E t \in Threads, v \in Universe : UnsyncIntern(t, v)
    \/ \E t \in Threads, v \in Universe : UnsyncInternNew(t, v)
    \/ \E t \in Threads, v \in Universe : UnsyncInsertArena(t, v)
    \/ \E t \in Threads, v \in Universe : UnsyncTryResolve(t, v)
    \/ \E t \in Threads : UnsyncLen(t)
    \/ \E t \in Threads, v \in Universe : SyncTryResolveStart(t, v)
    \/ \E t \in Threads : SyncTryResolveFind(t)
    \/ \E t \in Threads : SyncLen(t)
    \/ \E t \in Threads, v \in Universe : SyncInternStart(t, v)
    \/ \E t \in Threads : SyncInternLookup(t)
    \/ \E t \in Threads : SyncInternWrite(t)
    \/ \E t \in Threads : SyncInternRecheck(t)
    \/ \E t \in Threads, v \in Universe : SyncInternNewStart(t, v)
    \/ \E t \in Threads : SyncInternNewInsert(t)
    \/ \E t \in Threads, v \in Universe : LibTryResolveStart(t, v)
    \/ \E t \in Threads : LibTryResolveFind(t)
    \/ \E t \in Threads, v \in Universe : LibInternStart(t, v)
    \/ \E t \in Threads : LibArenaLock(t)
    \/ \E t \in Threads : LibAlloc(t)
    \/ \E t \in Threads : LibUpgrade(t)
    \/ \E t \in Threads : LibUpgraded(t)
    \/ \E t \in Threads : LibInsert(t)

Spec == Init /\ [][Next]_vars

\* the steps that carry on the call thread t is in
Continue(t) ==
    \/ SyncTryResolveFind(t)
    \/ SyncInternLookup(t)
    \/ SyncInternWrite(t)
    \/ SyncInternRecheck(t)
    \/ SyncInternNewInsert(t)
    \/ LibTryResolveFind(t)
    \/ LibArenaLock(t)
    \/ LibAlloc(t)
    \/ LibUpgrade(t)
    \/ LibUpgraded(t)
    \/ LibInsert(t)

\* Fair scheduling: a thread inside a call that can take its next step without
\* interruption eventually takes it. std::sync::RwLock promises no order among
\* the threads that contend for it, so a lock that is free only now and then
\* need not be granted to a thread that waits for it.
FairSpec == Spec /\ \A t \in Threads : WF_vars(Continue(t))

(***************************************************************************)
(* Vocabulary of the properties.                                           *)
(***************************************************************************)
\* the addresses held by the hash index
Indexed == {e.ptr : e \in set.entries}

\* the indexed addresses whose stored value equals v
IndexedEq(v) == {p \in Indexed : arena[p] = v}

\* thread t has just returned from a call of method o
Returned(t, o) == pc[t] = "done" /\ op[t] = o

\* the values for which some intern call has returned
InternedValues == {v \in Values : canon[v] /= None}

\* this step is the one in which thread t's intern call does its first lookup
FirstLookup(t) ==
    \/ variant \in {"unsync", "lib"} /\ pc[t] = "idle" /\ pc'[t] /= "idle" /\ op'[t] = "intern"
    \/ variant = "sync" /\ pc[t] = "lookup" /\ pc'[t] /= "lookup"

\* this step completes thread t's intern_new call
InternNewReturns(t) == pc[t] /= "done" /\ pc'[t] = "done" /\ op'[t] = "intern_new"

(***************************************************************************)
(* Properties.                                                             *)
(***************************************************************************)

\* C1: Dedup. When only intern and try_resolve are used, every intern(v)
\* returns the address the first intern(v) returned, in all three interners,
\* whatever was interned before and in between (also past a growth of the
\* hash index).
C1_Dedup ==
    \A t \in Threads :
        (OnlyIntern /\ Returned(t, "intern")) => ret[t] = canon[arg[t]]

\* C2: Canonical uniqueness. When only intern and try_resolve have been
\* called, no two distinct index entries point to equal values.
C2_CanonicalUnique ==
    OnlyIntern =>
        \A e1 \in set.entries, e2 \in set.entries :
            e1 /= e2 => arena[e1.ptr] /= arena[e2.ptr]

\* C3: Concurrency property. In the two locking interners, when only intern
\* (and try_resolve) were called and every call has returned, len() is the
\* number of distinct values submitted.
C3_LenIsDistinct ==
    (variant \in {"sync", "lib"} /\ OnlyIntern /\ Quiescent)
        => LenOf(set) = Cardinality(InternedValues)

\* C4: Resolve-after-intern. A try_resolve(q) that started after intern(q)
\* had returned p returns Some(p), whatever was interned in between.
C4_ResolveAfterIntern ==
    \A t \in Threads :
        (OnlyIntern /\ Returned(t, "try_resolve") /\ seen[t] /= None) => ret[t] = seen[t]

\* C5: Address stability. No step changes, moves or removes the value stored
\* at an address the arena has handed out; the arena only gains addresses.
C5_AddressStable ==
    [][\A p \in DOMAIN arena : p \in DOMAIN arena' /\ arena'[p] = arena[p]]_vars

\* C5 witness: intern returned address p for value v, allocations followed,
\* and p still holds v.
C5_Witness ==
    \E v \in Values :
        /\ canon[v] /= None
        /\ Len(arena) >= canon[v] + 2
        /\ arena[canon[v]] = v

\* C6: try_resolve has no false positives. A Some(p) returned by
\* try_resolve(q) is an indexed address whose stored value equals q, so a
\* value never stored is answered None.
C6_NoFalsePositive ==
    \A t \in Threads :
        (Returned(t, "try_resolve") /\ ret[t] /= None)
            => ret[t] \in Indexed /\ arena[ret[t]] = arg[t]

\* C6 witness: try_resolve(q) hit while an unequal stored value is filed
\* under the hash of q.
C6_Witness ==
    \E t \in Threads :
        /\ Returned(t, "try_resolve")
        /\ ret[t] /= None
        /\ \E e \in set.entries : e.hash = HashValue(arg[t]) /\ arena[e.ptr] /= arg[t]

\* C7: Lookup-without-insert. No step of a try_resolve call changes the hash
\* index (hence len()), the arena, or the arena's lazy initialisation.
C7_ResolveReadOnly ==
    [][\A t \in Threads :
          ((op[t] = "try_resolve" \/ op'[t] = "try_resolve") /\ pc'[t] /= pc[t])
              => (set' = set /\ arena' = arena /\ arenaInit' = arenaInit)]_vars

\* C7 witness: try_resolve returned None and the arena is still uninitialised.
C7_Witness ==
    \E t \in Threads :
        Returned(t, "try_resolve") /\ ret[t] = None /\ ~arenaInit /\ set = EmptyTable

\* C8: Hit path of intern. When intern(v) looks up v while a value equal to v
\* is indexed, the call returns an indexed address of an equal value in that
\* step, allocates nothing, adds no index entry and does not take the write lock.
C8_HitEffectFree ==
    [][\A t \in Threads :
          (FirstLookup(t) /\ OnlyIntern /\ IndexedEq(arg'[t]) /= {})
              => /\ pc'[t] = "done"
                 /\ ret'[t] \in IndexedEq(arg'[t])
                 /\ arena' = arena
                 /\ set' = set
                 /\ writer' /= t]_vars

\* C9: Linearizability of the locking interners. A try_resolve(v) or
\* intern(v) that started after an intern(v) had returned p observes that
\* insert: it returns p.
C9_Linearizable ==
    \A t \in Threads :
        (/\ variant \in {"sync", "lib"}
         /\ OnlyIntern
         /\ Returned(t, "try_resolve") \/ Returned(t, "intern")
         /\ seen[t] /= None)
            => ret[t] = seen[t]

\* C10: intern_new never looks up. The step that completes intern_new(v)
\* allocates v at a fresh address, indexes exactly that address and returns
\* it, so len() grows by one; if an equal value was indexed, the index then
\* holds two entries with equal values.
C10_InternNewInserts ==
    [][\A t \in Threads :
          InternNewReturns(t)
              => /\ arena' = Append(arena, arg'[t])
                 /\ ret'[t] = Len(arena')
                 /\ {e.ptr : e \in set'.entries} = Indexed \cup {ret'[t]}
                 /\ ret'[t] \notin Indexed
                 /\ LenOf(set') = LenOf(set) + 1
                 /\ IndexedEq(arg'[t]) /= {}
                        => \E e1 \in set'.entries, e2 \in set'.entries :
                               e1.ptr /= e2.ptr /\ arena'[e1.ptr] = arena'[e2.ptr]]_vars

\* C10 witness: intern_new(v) returned while an equal value was already
\* indexed at another address.
C10_Witness ==
    \E t \in Threads :
        /\ Returned(t, "intern_new")
        /\ ret[t] \in Indexed
        /\ \E p \in IndexedEq(arg[t]) : p /= ret[t]

\* C11: Monotonic growth. No step of any method lowers len() or takes an
\* address out of the hash index, also when the index grows and rehashes.
C11_MonotonicGrowth ==
    [][LenOf(set') >= LenOf(set) /\ Indexed \subseteq {e.ptr : e \in set'.entries}]_vars

\* C11 witness: the index has grown past its first capacity and still holds
\* every address that was inserted before the growth.
C11_Witness ==
    /\ set.buckets > 4
    /\ LenOf(set) > Capacity(4)
    /\ \E v \in Values : canon[v] /= None /\ canon[v] <= Capacity(4) /\ canon[v] \in Indexed

\* this step belongs to an inserting call of thread t (an intern that missed,
\* an intern_new or an insert_arena) that is about to allocate or allocates
InsertingStep(t) ==
    /\ pc'[t] /= pc[t]
    /\ op'[t] \in {"intern", "intern_new", "insert_arena"}
    /\ \/ arena' = Append(arena, arg'[t])
       \/ variant = "lib" /\ pc[t] = "arena" /\ pc'[t] = "alloc"

\* C12: Lazy arena. new() yields an empty index and an uninitialised arena;
\* the arena is initialised only by a step of an inserting call, is
\* initialised by the time anything is allocated, and once initialised it is
\* never initialised again or reset.
C12_LazyArena ==
    /\ ~arenaInit /\ arena = <<>> /\ set = EmptyTable
    /\ [][/\ (~arenaInit /\ arenaInit') => \E t \in Threads : InsertingStep(t)
          /\ (\A t \in Threads : ~InsertingStep(t)) => arenaInit' = arenaInit
          /\ arena' /= <<>> => arenaInit'
          /\ arenaInit => arenaInit']_vars

\* C12 witness: two threads missed the same value concurrently (sync.rs); the
\* first has inserted and initialised the arena, the second is still on its
\* way to the write lock.
C12_Witness ==
    \E t \in Threads, u \in Threads :
        /\ variant = "sync"
        /\ Returned(t, "intern")
        /\ pc[u] = "write"
        /\ arg[u] = arg[t]
        /\ arenaInit
        /\ Len(arena) = LenOf(set)
        /\ LenOf(set) > 0

\* C13: intern(v) returns the address of a value equal to v. The address is
\* indexed and stores v, whether it was found or newly allocated, also when
\* an unequal stored value is filed under the hash of v.
C13_InternReturnsEqual ==
    \A t \in Threads :
        Returned(t, "intern") => ret[t] \in Indexed /\ arena[ret[t]] = arg[t]

\* C13 witness: intern(v) returned while an unequal value is filed under the
\* hash of v.
C13_Witness ==
    \E t \in Threads :
        /\ Returned(t, "intern")
        /\ \E e \in set.entries : e.hash = HashValue(arg[t]) /\ arena[e.ptr] /= arg[t]

\* thread t (lib.rs intern) has seen its find miss and has not yet completed
\* its insert_unique
BetweenMissAndInsert(t) == op[t] = "intern" /\ pc[t] \in {"arena", "alloc", "upgrade", "upgrading", "insert"}

\* C14: Atomic upgrade (lib.rs). While a thread is between its missed find
\* and the completion of its insert_unique, the index is changed by no step
\* but that thread's own insert, and no other thread is or gets between a
\* missed find and its insert.
C14_AtomicUpgrade ==
    [][\A t \in Threads :
          (variant = "lib" /\ BetweenMissAndInsert(t))
              => /\ set' /= set => (pc[t] = "insert" /\ pc'[t] = "done")
                 /\ \A u \in Threads \ {t} :
                        ~BetweenMissAndInsert(u) /\ ~BetweenMissAndInsert(u)']_vars

\* C14 witness: a thread has missed and allocated and waits for its upgrade
\* while the other thread holds the lock shared.
C14_Witness ==
    \E t \in Threads, u \in Threads :
        /\ variant = "lib"
        /\ pc[t] = "upgrade"
        /\ upgrader = t
        /\ u /= t
        /\ u \in readers

\* what a find for the argument of thread t's call returns in this state
Lookup(t) == TryResolveWith(set, arena, arg[t], HashValue(arg[t]))

\* C15: Re-check under exclusive access (sync.rs intern). A step of an intern
\* call changes the index only while the caller holds the write lock and a
\* find in that state misses; a caller that holds the write lock and whose
\* find hits returns a found address and changes neither index nor arena.
C15_RecheckUnderWrite ==
    [][\A t \in Threads :
          (variant = "sync" /\ op[t] = "intern" /\ pc'[t] /= pc[t])
              => /\ set' /= set => (writer = t /\ Lookup(t) = {})
                 /\ (pc[t] = "recheck" /\ Lookup(t) /= {})
                        => /\ writer = t
                           /\ pc'[t] = "done"
                           /\ ret'[t] \in Lookup(t)
                           /\ set' = set
                           /\ arena' = arena]_vars

\* C15 witness: a thread that missed under the read lock holds the write
\* lock and its second find will hit.
C15_Witness ==
    \E t \in Threads :
        /\ variant = "sync"
        /\ pc[t] = "recheck"
        /\ writer = t
        /\ Lookup(t) /= {}

\* this step ends the intern call of a thread that lost the race (sync.rs):
\* it had missed under the read lock and its find under the write lock hits
LoserReturns(t) ==
    /\ variant = "sync"
    /\ op[t] = "intern"
    /\ pc[t] = "recheck"
    /\ pc'[t] = "done"
    /\ Lookup(t) /= {}

\* C16: Lost race (sync.rs intern), as claimed: the losing thread's value is
\* allocated in the arena and not indexed, so the arena holds more
\* allocations than len().
C16_LoserAllocates ==
    [][\A t \in Threads :
          LoserReturns(t)
              => /\ Len(arena') = Len(arena) + 1
                 /\ set' = set
                 /\ Len(arena') > LenOf(set')]_vars

\* C16 amended: a thread that missed under the read lock and whose find under
\* the write lock hits has allocated nothing: it returns the found address and
\* leaves arena and index unchanged; in sync.rs every allocation is indexed
\* in the same step, so the number of arena allocations always equals len().
C16_LoserAllocatesNothing ==
    [][variant = "sync"
          => /\ Len(arena') = LenOf(set')
             /\ \A t \in Threads :
                    LoserReturns(t)
                        => /\ arena' = arena
                           /\ set' = set
                           /\ ret'[t] \in IndexedEq(arg[t])]_vars

\* C16 witness: both threads missed the same value before either had
\* inserted it; one has inserted and returned, the other holds the write lock
\* and is about to find the winner's entry.
C16_Witness ==
    \E t \in Threads, u \in Threads :
        /\ variant = "sync"
        /\ pc[t] = "recheck"
        /\ seen[t] = None
        /\ Returned(u, "intern")
        /\ arg[u] = arg[t]
        /\ ret[u] \in Lookup(t)
        /\ Len(arena) = LenOf(set)

\* C17: Allocation under the exclusive lock (lib.rs intern), as claimed: the
\* arena is written only by a thread that holds the lock exclusively.
C17_AllocUnderWrite ==
    [][(variant = "lib" /\ arena' /= arena) => writer /= None]_vars

\* C17 amended: on a miss the value is allocated while the caller holds the
\* arena mutex and only the upgradable-read lock; the lock is upgraded after
\* the allocation, and only the index insert runs under the exclusive lock.
C17_AllocBeforeUpgrade ==
    [][variant = "lib"
          => /\ arena' /= arena
                 => \E t \in Threads :
                        /\ pc[t] = "alloc" /\ pc'[t] = "upgrade"
                        /\ mutex = t
                        /\ upgrader = t
                        /\ writer = None
                        /\ set' = set
             /\ set' /= set
                 => \E t \in Threads :
                        /\ pc[t] = "insert" /\ pc'[t] = "done"
                        /\ writer = t
                        /\ mutex = None
                        /\ ptr[t] \in DOMAIN arena
                        /\ arena' = arena]_vars

\* C17 witness: a thread has allocated its value and still holds only the
\* upgradable-read lock.
C17_Witness ==
    \E t \in Threads :
        /\ variant = "lib"
        /\ pc[t] = "upgrade"
        /\ upgrader = t
        /\ writer = None
        /\ ptr[t] = Len(arena)
        /\ arena[ptr[t]] = arg[t]
        /\ ptr[t] \notin Indexed

\* thread t is inside a call
InCall(t) == pc[t] \notin {"idle", "done"}

NewCall == \E t \in Threads : pc[t] = "idle" /\ pc'[t] /= "idle"

C19_FiledUnderValueHash ==
    \A e \in set.entries : e.hash = HashValue(arena[e.ptr])

\* the arena addresses the index does not hold
Unindexed == DOMAIN arena \ Indexed

\* C20: insert_arena (unsync.rs) allocates without indexing. The call appends
\* its value to the arena, returns the new address and leaves the index (and
\* len()) unchanged; an address the index does not hold is never indexed
\* later, and whatever try_resolve or intern return afterwards is an indexed
\* address, hence never the one insert_arena returned.
C20_InsertArenaNotIndexed ==
    [][variant = "unsync"
          => /\ \A t \in Threads :
                    (pc[t] = "idle" /\ op'[t] = "insert_arena")
                        => /\ arena' = Append(arena, arg'[t])
                           /\ ret'[t] = Len(arena')
                           /\ set' = set
                           /\ ret'[t] \notin {e.ptr : e \in set'.entries}
             /\ \A p \in Unindexed : p \notin {e.ptr : e \in set'.entries}
             /\ \A t \in Threads :
                    (pc[t] = "idle" /\ op'[t] \in {"try_resolve", "intern"} /\ ret'[t] /= None)
                        => ret'[t] \notin Unindexed]_vars

\* C20 witness: after insert_arena(v) put v at an address the index does not
\* hold, intern(v) returned a different, later address.
C20_Witness ==
    \E t \in Threads :
        /\ variant = "unsync"
        /\ Returned(t, "intern")
        /\ \E p \in Unindexed : arena[p] = arg[t] /\ p < ret[t]
        /\ ret[t] = Len(arena)

====
